---- MODULE Spec2Model ----
(***************************************************************************)
(* Model of custom_components/nipca/__init__.py: the NipcaCameraDevice     *)
(* (attribute polling over HTTP, the notify-stream listener and its        *)
(* connection handle) and the discovery loop of async_setup.               *)
(*                                                                         *)
(* Text is modelled as sequences of one-character strings, so that strip,  *)
(* lower, the '=' test and split('=', 1) are computed as Python computes   *)
(* them.  A character Python's repr() escapes is written as that escape:   *)
(* "\\x0b" is the one character U+000B, "\\u2028" the one character        *)
(* U+2028.  A line is the text bytes.decode() gives for it; BadByte marks  *)
(* a line that is not valid UTF-8, for which decode() raises.  A dict is a *)
(* function whose DOMAIN is its key set.                                   *)
(***************************************************************************)
EXTENDS FiniteSets, Integers, Sequences, TLC

VARIABLES
    \* ---- one NipcaCameraDevice polled through update_info ----
    _attributes,       \* self._attributes
    motion_info_url,   \* self.motion_info_url ("None" until selected)
    pcs,               \* per caller of update_info: where its call stands [at, idx, suffix]
    started,           \* whether an update_info call has been started on the device
    overlapped,        \* whether another caller was inside update_info during the observed call
    infoCall,          \* "never" / "first" / "later": which call of the device the observed one is
    reqLog,            \* the HTTP GETs of the observed update_info call, in order: [url, outcome]
    infoRaised,        \* the exception the observed call propagated, or "none"
    infoLogged,        \* _LOGGER.error messages of the observed call
    prevAttributes,    \* self._attributes when the observed call started
    prevMotionUrl,     \* self.motion_info_url when the observed call started
    retAttributes,     \* self._attributes when the observed call ended
    retMotionUrl,      \* self.motion_info_url when the observed call ended
    \* ---- hass.data, from_url and async_setup ----
    hass_data,         \* hass.data: 'nipca.<url>' -> the id of the device stored
    devices,           \* per id, the device stored: [id, url, attributes, motion_info_url]
    constructed,       \* NipcaCameraDevice objects constructed so far; ids are 1..constructed
    storedEver,        \* per hass.data key, the ids of the devices ever stored under it
    raced,             \* URLs for which a from_url call began inside another one's update_info
    jobs,              \* per thread, its from_url call: [at, url, existed, made, exc, ret]
    lastCall,          \* the record of the from_url call that ended last
    setupState,        \* "not run", "running", "True" (returned True) or the exception raised
    setupResps,        \* the discovery responses async_setup got from msearch
    setupIdx,          \* the index in setupResps of the response in hand
    handled,           \* per processed response: "none" or the exception its handling raised
    loaded,            \* discovery.async_load_platform jobs added, in order
    setupLogged,       \* errors async_setup logged, as indices into setupResps
    \* ---- the notify stream of one device ----
    _events,           \* self._events
    client,            \* self.client: 0 for None, else the index in gens of the listener
    gens,              \* every _notify_listener() generator created: [state, count, at]
    buffer,            \* response.content._buffer of the open notify stream, as lines
    coordinator_data,  \* coordinator.data: "None", or "_events": the self._events object itself
    update_interval,   \* coordinator.update_interval.total_seconds()
    pending,           \* the update_motion_sensors call suspended inside the listener
    empties,           \* per pass of the listener's loop: was the buffer empty at line 268
    readLog,           \* every line readline() returned, in order
    received,          \* lines the camera has sent so far
    lastMotion         \* the record of the update_motion_sensors call that ended last

infoVars == <<_attributes, motion_info_url, pcs, started, overlapped, infoCall, reqLog,
              infoRaised, infoLogged, prevAttributes, prevMotionUrl, retAttributes,
              retMotionUrl>>

discVars == <<hass_data, devices, constructed, storedEver, raced, jobs, lastCall,
              setupState, setupResps, setupIdx, handled, loaded, setupLogged>>

motionVars == <<_events, client, gens, buffer, coordinator_data, update_interval,
                pending, empties, readLog, received, lastMotion>>

vars == <<infoVars, discVars, motionVars>>

(***************************************************************************)
(* Text helpers (Python str / bytes methods).  The characters of the model *)
(* are those of Latin-1 (U+0000..U+00FF) and the Unicode white space.      *)
(***************************************************************************)

\* the characters for which str.isspace() holds, which are the ones
\* str.strip() removes: U+0009..U+000D, U+001C..U+001F, U+0020, U+0085,
\* U+00A0, U+1680, U+2000..U+200A, U+2028, U+2029, U+202F, U+205F, U+3000
Whitespace ==
    {"\t", "\n", "\\x0b", "\f", "\r", "\\x1c", "\\x1d", "\\x1e", "\\x1f", " ",
     "\\x85", "\\xa0", "\\u1680", "\\u2000", "\\u2001", "\\u2002", "\\u2003",
     "\\u2004", "\\u2005", "\\u2006", "\\u2007", "\\u2008", "\\u2009", "\\u200a",
     "\\u2028", "\\u2029", "\\u202f", "\\u205f", "\\u3000"}

\* the characters of Latin-1 that str.lower() changes, and what it makes
\* them: A-Z, and U+00C0..U+00DE without U+00D7
UpperCase == <<"A", "B", "C", "D", "E", "F", "G", "H", "I", "J", "K", "L", "M",
               "N", "O", "P", "Q", "R", "S", "T", "U", "V", "W", "X", "Y", "Z",
               "À", "Á", "Â", "Ã", "Ä", "Å", "Æ", "Ç", "È", "É", "Ê", "Ë", "Ì",
               "Í", "Î", "Ï", "Ð", "Ñ", "Ò", "Ó", "Ô", "Õ", "Ö", "Ø", "Ù", "Ú",
               "Û", "Ü", "Ý", "Þ">>
LowerCase == <<"a", "b", "c", "d", "e", "f", "g", "h", "i", "j", "k", "l", "m",
               "n", "o", "p", "q", "r", "s", "t", "u", "v", "w", "x", "y", "z",
               "à", "á", "â", "ã", "ä", "å", "æ", "ç", "è", "é", "ê", "ë", "ì",
               "í", "î", "ï", "ð", "ñ", "ò", "ó", "ô", "õ", "ö", "ø", "ù", "ú",
               "û", "ü", "ý", "þ">>

ToLower == [c \in {UpperCase[i] : i \in 1..Len(UpperCase)} |->
               LowerCase[CHOOSE i \in 1..Len(UpperCase) : UpperCase[i] = c]]

\* str.lower() on one character
LowerChar(c) == IF c \in DOMAIN ToLower THEN ToLower[c] ELSE c

\* str.lower()
Lower(s) == [i \in 1..Len(s) |-> LowerChar(s[i])]

RECURSIVE LStrip(_)
LStrip(s) ==
    IF s # <<>> /\ Head(s) \in Whitespace THEN LStrip(Tail(s)) ELSE s

RECURSIVE RStrip(_)
RStrip(s) ==
    IF s # <<>> /\ s[Len(s)] \in Whitespace
    THEN RStrip(SubSeq(s, 1, Len(s) - 1))
    ELSE s

\* str.strip()
Strip(s) == RStrip(LStrip(s))

\* a byte sequence that is not valid UTF-8, e.g. b'\xff'
BadByte == "\\xff"

\* bytes.decode() returns: the line is valid UTF-8
Decodable(l) == \A i \in 1..Len(l) : l[i] # BadByte

\* s.find('=') counted from 1, from position i on; Len(s) + 1 when there is none
RECURSIVE FindEq(_, _)
FindEq(s, i) == IF i > Len(s) \/ s[i] = "=" THEN i ELSE FindEq(s, i + 1)

\* '=' in s
HasEq(s) == FindEq(s, 1) <= Len(s)

\* s.split('=', 1) for a string that contains '='
SplitKey(s) == SubSeq(s, 1, FindEq(s, 1) - 1)
SplitValue(s) == SubSeq(s, FindEq(s, 1) + 1, Len(s))

(***************************************************************************)
(* dict helpers                                                            *)
(***************************************************************************)

EmptyDict == [k \in {} |-> <<>>]

\* d[k] = v
DictSet(d, k, v) == [x \in (DOMAIN d) \cup {k} |-> IF x = k THEN v ELSE d[x]]

DictUpdateKeepOld(d, e) ==
    [x \in (DOMAIN d) \cup (DOMAIN e) |-> IF x \in DOMAIN d THEN d[x] ELSE e[x]]

\* d.update(e)
DictUpdate(d, e) ==
    [x \in (DOMAIN d) \cup (DOMAIN e) |-> IF x \in DOMAIN e THEN e[x] ELSE d[x]]

\* d.get(k) == v
DictGetIs(d, k, v) == k \in DOMAIN d /\ d[k] = v

(***************************************************************************)
(* Class constants of NipcaCameraDevice.  The '{}' of each suffix is the   *)
(* place _build_url puts the device URL, so a suffix is kept as the text   *)
(* that follows it.                                                        *)
(***************************************************************************)

COMMON_INFO == "/common/info.cgi"
STREAM_INFO == "/config/stream_info.cgi"
MOTION_INFO == <<"/config/motion.cgi", "/motion.cgi">>
\* STILL_IMAGE and NOTIFY_STREAM, kept like the other suffixes
STILL_IMAGE == "/image/jpeg.cgi"
NOTIFY_STREAM == "/config/notify_stream.cgi"

\* the strings with a '{}' that _build_url is given
Templates == {COMMON_INFO, STREAM_INFO, STILL_IMAGE, NOTIFY_STREAM} \cup
                 {MOTION_INFO[i] : i \in 1..Len(MOTION_INFO)}

\* suffix.format(self.url); a string without '{}', as 'disabled' is, formats
\* to itself
_build_url(url, suffix) == IF suffix \in Templates THEN url \o suffix ELSE suffix

KEY_name == <<"n", "a", "m", "e">>
KEY_vprofileurl1 == <<"v", "p", "r", "o", "f", "i", "l", "e", "u", "r", "l", "1">>
KEY_enable == <<"e", "n", "a", "b", "l", "e">>
KEY_motiondetectionenable ==
    <<"m", "o", "t", "i", "o", "n", "d", "e", "t", "e", "c", "t", "i", "o", "n",
      "e", "n", "a", "b", "l", "e">>
VAL_yes == <<"y", "e", "s">>
VAL_no == <<"n", "o">>
VAL_1 == <<"1">>

(***************************************************************************)
(* Environment of the polling client: what a GET of a status endpoint      *)
(* yields.  A response is the sequence of lines req.iter_lines() returns.  *)
(***************************************************************************)

\* name=cam / vprofileurl1=/v / K=1 / k=2
RespCommon ==
    << <<"n", "a", "m", "e", "=", "c", "a", "m">>,
       <<"v", "p", "r", "o", "f", "i", "l", "e", "u", "r", "l", "1", "=", "/", "v">>,
       <<"K", "=", "1">>,
       <<"k", "=", "2">> >>

\* Enable=yes / junk / É=1 followed by U+00A0
RespMotion ==
    << <<"E", "n", "a", "b", "l", "e", "=", "y", "e", "s">>,
       <<"j", "u", "n", "k">>,
       <<"É", "=", "1", "\\xa0">> >>

\* '\x1c k=3 \x0b' / motiondetectionenable=1
RespStream ==
    << <<"\\x1c", " ", "k", "=", "3", " ", "\\x0b">>,
       <<"m", "o", "t", "i", "o", "n", "d", "e", "t", "e", "c", "t", "i", "o", "n",
         "e", "n", "a", "b", "l", "e", "=", "1">> >>

\* a body with no key=value line: junk / '' / ' '
RespJunk == << <<"j", "u", "n", "k">>, <<>>, <<" ">> >>

\* k=9 / a line that is not valid UTF-8
RespBad == << <<"k", "=", "9">>, <<"k", "=", BadByte>> >>

Bodies == {RespCommon, RespStream, RespMotion, RespJunk, RespBad}

\* requests.get returned a response with this body
Ok(body) == [status |-> "ok", body |-> body]
\* requests.get raising the builtin ConnectionError (the class line 206 names)
ConnErr == [status |-> "ConnectionError", body |-> <<>>]
\* requests.get raising requests.exceptions.ConnectionError, which derives from
\* RequestException (IOError) and not from the builtin ConnectionError
ReqConnErr == [status |-> "requests.exceptions.ConnectionError", body |-> <<>>]

Responses == {Ok(b) : b \in Bodies}
Outcomes == Responses \cup {ConnErr, ReqConnErr}

\* Device URLs (presentationURL of a discovery response).  requests raises
\* MissingSchema for a URL with no scheme, and so for url None, which format()
\* renders as 'None'.
GoodUrls == {"http://cam1", "http://cam2"}
BadUrls == {"None", "cam3.local"}
Urls == GoodUrls \cup BadUrls
GoodUrl == "http://cam1"
\* the URL requests.get is given starts with a scheme
HasSchema(built) == \E u \in GoodUrls, s \in Templates : built = u \o s

(***************************************************************************)
(* _nipca                                                                  *)
(***************************************************************************)

\* lines 209-217: the loop over req.iter_lines(), result[k.lower()] = v.  The
\* parse is [exc, result]: l.decode() raises on a line that is not UTF-8.
RECURSIVE ParseLines(_, _)
ParseLines(lines, result) ==
    IF lines = <<>> THEN [exc |-> "none", result |-> result]
    ELSE IF Head(lines) = <<>> THEN ParseLines(Tail(lines), result)
    ELSE IF ~Decodable(Head(lines))
    THEN [exc |-> "UnicodeDecodeError", result |-> EmptyDict]
    ELSE IF HasEq(Strip(Head(lines)))
    THEN ParseLines(Tail(lines),
                    DictSet(result, Lower(SplitKey(Strip(Head(lines)))),
                            SplitValue(Strip(Head(lines)))))
    ELSE ParseLines(Tail(lines), result)

\* ParseLines over the bodies of the model, evaluated once
ParsedBody == [b \in Bodies |-> ParseLines(b, EmptyDict)]

\* the except clause of line 206: which outcomes of requests.get it catches
NipcaCatches(outcome) == outcome = ConnErr

\* _nipca(suffix) against the outcome of its GET:
\*   exc     the exception it propagates ("none" when it returns)
\*   result  the dict it returns
\*   logged  the _LOGGER.error messages it emits
_nipca(url, suffix, outcome) ==
    IF ~HasSchema(_build_url(url, suffix))
    THEN [exc |-> "MissingSchema", result |-> EmptyDict, logged |-> <<>>]
    ELSE IF outcome.status = "ok"
    THEN [exc |-> ParsedBody[outcome.body].exc,
          result |-> ParsedBody[outcome.body].result, logged |-> <<>>]
    ELSE IF NipcaCatches(outcome)
    \* logged, then line 209 reads req, which was never bound
    THEN [exc |-> "UnboundLocalError", result |-> EmptyDict,
          logged |-> <<"Nipca ConnectionError">>]
    ELSE [exc |-> outcome.status, result |-> EmptyDict, logged |-> <<>>]

(***************************************************************************)
(* update_info as one sequential computation: what a call does when no     *)
(* other thread touches the device, as for the device from_url has made    *)
(* and not yet stored.                                                     *)
(***************************************************************************)

Request(url, suffix, outcome) == [url |-> _build_url(url, suffix), outcome |-> outcome]

\* the frame of one update_info call: the device fields it works on, its GETs
\* (log), its _LOGGER.error messages (logged) and the exception it got (exc)
Frame(attrs, miu) ==
    [attributes |-> attrs, motion_info_url |-> miu,
     log |-> <<>>, logged |-> <<>>, exc |-> "none"]

\* the frame after a _nipca call r for request req, before its result is used
Asked(f, req, r) ==
    [f EXCEPT !.log = Append(@, req), !.logged = @ \o r.logged, !.exc = r.exc]

\* self._attributes.update(r.result) for a _nipca call r that returned
Merged(f, req, r) ==
    IF r.exc # "none" THEN Asked(f, req, r)
    ELSE [Asked(f, req, r) EXCEPT !.attributes = DictUpdate(@, r.result)]

\* one self._attributes.update(self._nipca(suffix)) (lines 184, 185, 196)
MergeEndpoint(f, url, suffix, net) ==
    Merged(f, Request(url, suffix, net[suffix]), _nipca(url, suffix, net[suffix]))

\* lines 187-194: for url in self.MOTION_INFO ... else
RECURSIVE MotionSelect(_, _, _, _)
RECURSIVE MotionTried(_, _, _, _, _)
MotionSelect(f, url, net, i) ==
    IF i > Len(MOTION_INFO)
    THEN [f EXCEPT !.motion_info_url = "disabled"]
    ELSE MotionTried(f, url, net, i, _nipca(url, MOTION_INFO[i], net[MOTION_INFO[i]]))

\* lines 188-192 for attrs = r.result
MotionTried(f, url, net, i, r) ==
    IF r.exc # "none" THEN Asked(f, Request(url, MOTION_INFO[i], net[MOTION_INFO[i]]), r)
    ELSE IF r.result # EmptyDict
    THEN [Merged(f, Request(url, MOTION_INFO[i], net[MOTION_INFO[i]]), r)
             EXCEPT !.motion_info_url = MOTION_INFO[i]]
    ELSE MotionSelect(Asked(f, Request(url, MOTION_INFO[i], net[MOTION_INFO[i]]), r),
                      url, net, i + 1)

\* line 185, reached when line 184 did not raise
StreamStep(f, url, net) ==
    IF f.exc # "none" THEN f ELSE MergeEndpoint(f, url, STREAM_INFO, net)

\* lines 186-196, reached when line 185 did not raise
MotionStep(f, url, net) ==
    IF f.exc # "none" THEN f
    ELSE IF f.motion_info_url = "None" THEN MotionSelect(f, url, net, 1)
    ELSE IF f.motion_info_url # "disabled"
    THEN MergeEndpoint(f, url, f.motion_info_url, net)
    ELSE f

\* update_info on a device with the given attributes and motion_info_url,
\* net[suffix] being what a GET of that suffix yields during the call
UpdateInfo(attrs, miu, url, net) ==
    MotionStep(StreamStep(MergeEndpoint(Frame(attrs, miu), url, COMMON_INFO, net),
                          url, net),
               url, net)

(***************************************************************************)
(* update_info on a device that is shared: the method blocks in each GET   *)
(* and other callers (the platforms' polls, each in an executor thread)    *)
(* run meanwhile.  A step is one access to the device: a dict.update, a    *)
(* read or a write of motion_info_url.  Caller Observed is the one whose   *)
(* call is recorded.                                                       *)
(***************************************************************************)

\* the platforms async_setup loads for a device (lines 59-69): each is given
\* the device and can call its update_info from an executor thread
Callers == {"camera", "binary_sensor"}
\* the caller whose calls the records below describe
Observed == "camera"

\* The camera the callers poll: the bodies it serves at each status path, and
\* the two ways a GET fails.  Any other argument never reaches the network.
Served(suffix) ==
    {ConnErr, ReqConnErr} \cup
    IF suffix = COMMON_INFO THEN {Ok(RespCommon), Ok(RespJunk)}
    ELSE IF suffix = STREAM_INFO THEN {Ok(RespStream), Ok(RespBad)}
    ELSE {Ok(RespMotion), Ok(RespJunk)}

\* where a call stands: the line it is about to run, the index of its for
\* loop, and the argument it read at line 196
Pc(at, idx, suffix) == [at |-> at, idx |-> idx, suffix |-> suffix]
Idle == Pc("idle", 0, "None")
At(t, where) == pcs[t].at = where
Goto(t, pc) == pcs' = [pcs EXCEPT ![t] = pc]

\* what a step leaves alone besides the device and the record of the call
Frozen == UNCHANGED <<started, overlapped, infoCall, prevAttributes, prevMotionUrl>>

\* the record of the observed call gets the request and what _nipca logged
Record(t, req, r) ==
    IF t = Observed
    THEN /\ reqLog' = Append(reqLog, req)
         /\ infoLogged' = infoLogged \o r.logged
    ELSE UNCHANGED <<reqLog, infoLogged>>

\* the call of t ends: it returns (exc = "none") or propagates exc, leaving
\* the device with attrs and miu
Ends(t, exc, attrs, miu) ==
    /\ Goto(t, Idle)
    /\ infoRaised' = IF t = Observed THEN exc ELSE infoRaised
    /\ retAttributes' = IF t = Observed THEN attrs ELSE retAttributes
    /\ retMotionUrl' = IF t = Observed THEN miu ELSE retMotionUrl

\* the call of t goes on at pc
Continues(t, pc) ==
    /\ Goto(t, pc)
    /\ UNCHANGED <<infoRaised, retAttributes, retMotionUrl>>

\* self._attributes.update(self._nipca(suffix)) with the GET answered by
\* outcome, r being what _nipca did; the call goes on at next
MergeStep(t, suffix, outcome, r, next) ==
    /\ Record(t, Request(GoodUrl, suffix, outcome), r)
    /\ IF r.exc # "none"
       THEN Ends(t, r.exc, _attributes, motion_info_url) /\ UNCHANGED _attributes
       ELSE /\ _attributes' = DictUpdate(_attributes, r.result)
            /\ IF next = Idle
               THEN Ends(t, "none", DictUpdate(_attributes, r.result), motion_info_url)
               ELSE Continues(t, next)
    /\ UNCHANGED motion_info_url
    /\ Frozen

\* a caller enters update_info
CallUpdateInfo(t) ==
    /\ At(t, "idle")
    /\ Continues(t, Pc("184", 0, "None"))
    /\ started' = TRUE
    /\ IF t = Observed
       THEN /\ infoCall' = IF started THEN "later" ELSE "first"
            /\ overlapped' = (\E u \in Callers \ {t} : ~At(u, "idle"))
            /\ reqLog' = <<>>
            /\ infoLogged' = <<>>
            /\ prevAttributes' = _attributes
            /\ prevMotionUrl' = motion_info_url
       ELSE /\ overlapped' = (overlapped \/ ~At(Observed, "idle"))
            /\ UNCHANGED <<infoCall, reqLog, infoLogged, prevAttributes, prevMotionUrl>>
    /\ UNCHANGED <<_attributes, motion_info_url>>

\* line 184
MergeCommon(t) ==
    /\ At(t, "184")
    /\ \E o \in Served(COMMON_INFO) :
          MergeStep(t, COMMON_INFO, o, _nipca(GoodUrl, COMMON_INFO, o), Pc("185", 0, "None"))

\* line 185
MergeStream(t) ==
    /\ At(t, "185")
    /\ \E o \in Served(STREAM_INFO) :
          MergeStep(t, STREAM_INFO, o, _nipca(GoodUrl, STREAM_INFO, o), Pc("186", 0, "None"))

\* line 186: if not self.motion_info_url
TestUnset(t) ==
    /\ At(t, "186")
    /\ Continues(t, IF motion_info_url = "None" THEN Pc("188", 1, "None")
                    ELSE Pc("195", 0, "None"))
    /\ UNCHANGED <<_attributes, motion_info_url, reqLog, infoLogged>>
    /\ Frozen

\* where lines 187-192 go after attrs = self._nipca(MOTION_INFO[i]): to line
\* 191 when attrs is not empty, else to the next url of the for, or to its else
AfterTry(i, attrs) ==
    IF attrs # EmptyDict THEN Pc("191", i, "None")
    ELSE IF i < Len(MOTION_INFO) THEN Pc("188", i + 1, "None")
    ELSE Pc("194", 0, "None")

\* lines 188-190 for MOTION_INFO[idx]: attrs = self._nipca(url); if attrs:
\* self._attributes.update(attrs)
TryMotion(t) ==
    /\ At(t, "188")
    /\ \E o \in Served(MOTION_INFO[pcs[t].idx]) :
          MergeStep(t, MOTION_INFO[pcs[t].idx], o,
                    _nipca(GoodUrl, MOTION_INFO[pcs[t].idx], o),
                    AfterTry(pcs[t].idx, _nipca(GoodUrl, MOTION_INFO[pcs[t].idx], o).result))

\* lines 191-192: self.motion_info_url = url; break
SetMotionUrl(t) ==
    /\ At(t, "191")
    /\ motion_info_url' = MOTION_INFO[pcs[t].idx]
    /\ Ends(t, "none", _attributes, MOTION_INFO[pcs[t].idx])
    /\ UNCHANGED <<_attributes, reqLog, infoLogged>>
    /\ Frozen

\* line 194: self.motion_info_url = 'disabled'
SetDisabled(t) ==
    /\ At(t, "194")
    /\ motion_info_url' = "disabled"
    /\ Ends(t, "none", _attributes, "disabled")
    /\ UNCHANGED <<_attributes, reqLog, infoLogged>>
    /\ Frozen

\* line 195: elif self.motion_info_url != 'disabled'
TestDisabled(t) ==
    /\ At(t, "195")
    /\ IF motion_info_url # "disabled"
       THEN Continues(t, Pc("196", 0, "None"))
       ELSE Ends(t, "none", _attributes, motion_info_url)
    /\ UNCHANGED <<_attributes, motion_info_url, reqLog, infoLogged>>
    /\ Frozen

\* line 196: the argument self.motion_info_url is read
ReadMotionUrl(t) ==
    /\ At(t, "196")
    /\ Continues(t, Pc("get", 0, motion_info_url))
    /\ UNCHANGED <<_attributes, motion_info_url, reqLog, infoLogged>>
    /\ Frozen

\* line 196: self._attributes.update(self._nipca(<the url read>))
MergeMotion(t) ==
    /\ At(t, "get")
    /\ \E o \in Served(pcs[t].suffix) :
          MergeStep(t, pcs[t].suffix, o, _nipca(GoodUrl, pcs[t].suffix, o), Idle)

\* the next step of update_info for caller t
UpdateInfoStep(t) ==
    \/ CallUpdateInfo(t)
    \/ MergeCommon(t)
    \/ MergeStream(t)
    \/ TestUnset(t)
    \/ TryMotion(t)
    \/ SetMotionUrl(t)
    \/ SetDisabled(t)
    \/ TestDisabled(t)
    \/ ReadMotionUrl(t)
    \/ MergeMotion(t)

\* device.update_info() by the polling platforms: the next step of a caller
update_info ==
    /\ \E t \in Callers : UpdateInfoStep(t)
    /\ UNCHANGED <<discVars, motionVars>>

\* the same while the event loop runs update_motion_sensors: a step of a
\* caller in an executor thread, between two steps of the coroutine
update_info_in_executor ==
    /\ \E t \in Callers \ {Observed} : UpdateInfoStep(t)
    /\ UNCHANGED <<discVars, motionVars>>


(***************************************************************************)
(* Claims about update_info and _nipca (SpecInfo)                          *)
(***************************************************************************)

\* the observed caller has made a call and is not inside update_info
Returned == infoCall # "never" /\ At(Observed, "idle")

\* what a line of a response contributes, read off the line itself
LineIsPair(l) == l # <<>> /\ Decodable(l) /\ HasEq(Strip(l))
LineKey(l) == Lower(SplitKey(Strip(l)))
LineValue(l) == SplitValue(Strip(l))
PairLines(b, k) == {j \in 1..Len(b) : LineIsPair(b[j]) /\ LineKey(b[j]) = k}
BodyKeys(b) == {LineKey(b[j]) : j \in {i \in 1..Len(b) : LineIsPair(b[i])}}
Max(S) == CHOOSE x \in S : \A y \in S : y <= x

\* the requests of the observed call that got a response holding key k
ReceivedWith(k) ==
    {i \in 1..Len(reqLog) :
        reqLog[i].outcome.status = "ok" /\ PairLines(reqLog[i].outcome.body, k) # {}}
ReceivedKeys ==
    UNION {BodyKeys(reqLog[i].outcome.body) :
              i \in {j \in 1..Len(reqLog) : reqLog[j].outcome.status = "ok"}}

MotionUrls == {_build_url(GoodUrl, MOTION_INFO[i]) : i \in 1..Len(MOTION_INFO)}
MotionRequests == SelectSeq(reqLog, LAMBDA r : r.url \in MotionUrls)

\* the observed call asked common info, then stream info, then motion
\* endpoints, and every key holds the value of its last occurrence in the
\* last of these responses that contained it; a key that no response of the
\* call contained has the value it had when the call started
MergedInOrder ==
    /\ \A i \in 1..Len(reqLog) :
          IF i = 1 THEN reqLog[i].url = _build_url(GoodUrl, COMMON_INFO)
          ELSE IF i = 2 THEN reqLog[i].url = _build_url(GoodUrl, STREAM_INFO)
          ELSE reqLog[i].url \in MotionUrls
    /\ DOMAIN retAttributes = (DOMAIN prevAttributes) \cup ReceivedKeys
    /\ \A k \in DOMAIN retAttributes :
          IF ReceivedWith(k) # {}
          THEN retAttributes[k] =
                  LineValue(reqLog[Max(ReceivedWith(k))].outcome.body[
                                Max(PairLines(reqLog[Max(ReceivedWith(k))].outcome.body, k))])
          ELSE retAttributes[k] = prevAttributes[k]

\* C3 (as claimed): after every update_info that returned, the attributes
\* are the previous ones overwritten by the responses of the call in the
\* order common info, stream info, motion info, the last occurrence of a key
\* winning.
C3_LastWriteWinsAnyCall ==
    (Returned /\ infoRaised = "none") => MergedInOrder

\* C3 (amended): the same, for a call during which no other caller was inside
\* update_info on the device.
C3_LastWriteWins ==
    (Returned /\ infoRaised = "none" /\ ~overlapped) => MergedInOrder

\* a later call, alone on the device, in which the stream response overrides
\* a key of the common response (k: 2 -> 3, the line being '\x1c k=3 \x0b'), a
\* response repeats a key (K=1, k=2), and stored keys (enable, and é from the
\* line 'É=1\xa0') are in no response of the call
C3_Witness ==
    /\ Returned
    /\ infoCall = "later"
    /\ infoRaised = "none"
    /\ ~overlapped
    /\ Len(reqLog) >= 2
    /\ reqLog[1].outcome = Ok(RespCommon)
    /\ reqLog[2].outcome = Ok(RespStream)
    /\ ReceivedWith(KEY_enable) = {}
    /\ DictGetIs(prevAttributes, KEY_enable, VAL_yes)
    /\ DictGetIs(prevAttributes, <<"k">>, <<"2">>)
    /\ DictGetIs(retAttributes, KEY_enable, VAL_yes)
    /\ DictGetIs(retAttributes, <<"é">>, <<"1">>)
    /\ DictGetIs(retAttributes, <<"k">>, <<"3">>)

\* C4 (as claimed): when a GET of update_info fails with a connection error,
\* the error is logged and update_info does not raise.
C4_ConnectionErrorReturnsEmpty ==
    (Returned /\ \E i \in 1..Len(reqLog) : reqLog[i].outcome.status # "ok") =>
        /\ infoRaised = "none"
        /\ infoLogged # <<>>

\* C7 (as claimed): the first update_info tries the MOTION_INFO suffixes in
\* list order and stores the first whose response gave attributes, asking no
\* later one, or stores 'disabled' when none did; every later update_info
\* leaves motion_info_url as it was and polls exactly the chosen suffix, and
\* none when it is 'disabled'.
C7_StickyMotionEndpoint ==
    /\ (Returned /\ infoCall = "first") =>
          LET n == Len(MotionRequests)
              gave(i) == /\ MotionRequests[i].outcome.status = "ok"
                         /\ BodyKeys(MotionRequests[i].outcome.body) # {}
          IN  /\ n >= 1
              /\ \A i \in 1..n : MotionRequests[i].url = _build_url(GoodUrl, MOTION_INFO[i])
              /\ \A i \in 1..(n - 1) : ~gave(i)
              /\ IF gave(n) THEN retMotionUrl = MOTION_INFO[n]
                  ELSE n = Len(MOTION_INFO) /\ retMotionUrl = "disabled"
    /\ (Returned /\ infoCall = "later") =>
          /\ retMotionUrl = prevMotionUrl
          /\ retMotionUrl \in {MOTION_INFO[i] : i \in 1..Len(MOTION_INFO)} \cup {"disabled"}
          /\ IF retMotionUrl = "disabled" THEN MotionRequests = <<>>
              ELSE /\ Len(MotionRequests) = 1
                   /\ MotionRequests[1].url = _build_url(GoodUrl, retMotionUrl)

(***************************************************************************)
(* from_url, from_device_info and async_setup                              *)
(***************************************************************************)

MaxDevices == 3
MaxResps == 2

\* DATA_NIPCA.format(url)
DATA_NIPCA(url) == "nipca." \o url

\* what the cameras of the discovery runs answer, per suffix
NetGood ==
    (COMMON_INFO :> Ok(RespCommon)) @@ (STREAM_INFO :> Ok(RespStream)) @@
    (MOTION_INFO[1] :> Ok(RespJunk)) @@ (MOTION_INFO[2] :> Ok(RespMotion))
NetNoName ==
    (COMMON_INFO :> Ok(RespJunk)) @@ (STREAM_INFO :> Ok(RespStream)) @@
    (MOTION_INFO[1] :> Ok(RespMotion)) @@ (MOTION_INFO[2] :> Ok(RespJunk))
NetNoMotion ==
    (COMMON_INFO :> Ok(RespCommon)) @@ (STREAM_INFO :> Ok(RespJunk)) @@
    (MOTION_INFO[1] :> Ok(RespJunk)) @@ (MOTION_INFO[2] :> Ok(RespJunk))
NetDown ==
    (COMMON_INFO :> ConnErr) @@ (STREAM_INFO :> ConnErr) @@
    (MOTION_INFO[1] :> ConnErr) @@ (MOTION_INFO[2] :> ConnErr)
NetMotionDown ==
    (COMMON_INFO :> Ok(RespCommon)) @@ (STREAM_INFO :> Ok(RespStream)) @@
    (MOTION_INFO[1] :> ReqConnErr) @@ (MOTION_INFO[2] :> ReqConnErr)
DiscoveryNets == {NetGood, NetNoName, NetDown, NetMotionDown}

\* The threads that run from_url: the executor job of lines 60-61, and the
\* platforms async_setup loads, which call from_device_info
SetupThread == "setup"
Threads == {SetupThread} \cup Callers

\* The from_url call of a thread: "idle" (none), "queued" (the executor job
\* of line 60 has not started), "99" (inside update_info, line 99) or "done"
\* (the job ended and async_setup has not resumed); the URL, the id of the
\* device line 96 found (0: None), the id of the device line 98 constructed
\* (0: none), the exception raised and the id returned (0: raised)
Job(at, url, existed, made, exc, ret) ==
    [at |-> at, url |-> url, existed |-> existed, made |-> made, exc |-> exc, ret |-> ret]
NoJob == Job("idle", "None", 0, 0, "none", 0)

\* the record of a from_url call that ended: the thread, the URL, the id of
\* the device hass.data held at line 96 (0: none), the id of the device
\* constructed (0: none), whether update_info was called, the exception
\* raised, the id returned (0: raised)
Call(thread, url, existed, made, updated, exc, ret) ==
    [thread |-> thread, url |-> url, existed |-> existed, made |-> made,
     updated |-> updated, exc |-> exc, ret |-> ret]
NoFromUrl == Call("none", "None", 0, 0, FALSE, "none", 0)

Device(id, url, f) ==
    [id |-> id, url |-> url, attributes |-> f.attributes,
     motion_info_url |-> f.motion_info_url]

\* hass.data.get(data_name), as a device id (0 for None)
Held(data_name) == IF data_name \in DOMAIN hass_data THEN hass_data[data_name] ELSE 0
EverHeld(data_name) ==
    IF data_name \in DOMAIN storedEver THEN storedEver[data_name] ELSE {}

\* line 99, device.update_info() on the device line 98 constructed, which no
\* other thread holds before line 100, for every URL and network of the
\* model, evaluated once
FirstUpdateInfo ==
    [url \in Urls, net \in DiscoveryNets |-> UpdateInfo(EmptyDict, "None", url, net)]

\* the from_url call of thread t ends as call
Returns(t, call) ==
    /\ lastCall' = call
    /\ jobs' = [jobs EXCEPT ![t] =
                   IF t = SetupThread
                   THEN Job("done", call.url, call.existed, call.made, call.exc, call.ret)
                   ELSE NoJob]

ShouldConstructAlways(device) == TRUE

\* the test of line 97, 'if not device', for the id line 96 got (0: None)
ShouldConstruct(device) == device = 0

\* lines 95-98 of from_url(hass, conf, url) in thread t, and line 101 when
\* hass.data holds a device: the call goes on to the blocking update_info
Enter(t, url) ==
    IF ~ShouldConstruct(Held(DATA_NIPCA(url)))
    THEN /\ Returns(t, Call(t, url, Held(DATA_NIPCA(url)), 0, FALSE, "none",
                            Held(DATA_NIPCA(url))))
         /\ UNCHANGED <<hass_data, devices, constructed, storedEver, raced>>
    ELSE /\ constructed < MaxDevices
         /\ constructed' = constructed + 1
         /\ jobs' = [jobs EXCEPT ![t] =
                        Job("99", url, Held(DATA_NIPCA(url)), constructed + 1, "none", 0)]
         /\ raced' = IF \E u \in Threads \ {t} : jobs[u].at = "99" /\ jobs[u].url = url
                     THEN raced \cup {url} ELSE raced
         /\ UNCHANGED <<hass_data, devices, storedEver, lastCall>>

\* lines 99-101 for the call j of thread t, f being how update_info ended
Leave(t, j, f) ==
    IF f.exc # "none"
    THEN /\ Returns(t, Call(t, j.url, j.existed, j.made, TRUE, f.exc, 0))
         /\ UNCHANGED <<hass_data, devices, storedEver>>
    ELSE /\ hass_data' = DictSet(hass_data, DATA_NIPCA(j.url), j.made)
         /\ devices' = DictSet(devices, j.made, Device(j.made, j.url, f))
         /\ storedEver' = DictSet(storedEver, DATA_NIPCA(j.url),
                                  EverHeld(DATA_NIPCA(j.url)) \cup {j.made})
         /\ Returns(t, Call(t, j.url, j.existed, j.made, TRUE, "none", j.made))

setupVars == <<setupState, setupResps, setupIdx, handled, loaded, setupLogged>>

\* NipcaCameraDevice.from_url(hass, conf, url), called by line 60 and by
\* from_device_info: the executor job of line 60 starts, or a call inside
\* update_info gets its answers and returns
from_url ==
    /\ \E t \in Threads :
          \/ /\ jobs[t].at = "queued"
             /\ Enter(t, jobs[t].url)
          \/ /\ jobs[t].at = "99"
             /\ \E net \in DiscoveryNets :
                   Leave(t, jobs[t], FirstUpdateInfo[jobs[t].url, net])
             /\ UNCHANGED <<constructed, raced>>
    /\ UNCHANGED <<infoVars, motionVars, setupVars>>

\* device_info.get('presentationURL'); a device_info without the key has the
\* field "None", which is what get() returns for it
PresentationURL(device_info) == device_info.presentationURL

\* the device_info dicts of the model: from_device_info reads presentationURL
\* only
DeviceInfos == [url : {GoodUrl}, presentationURL : Urls]

\* NipcaCameraDevice.from_device_info called by a platform thread (platforms
\* exist once async_setup has added their jobs), up to the blocking
\* update_info of from_url
from_device_info ==
    /\ loaded # <<>>
    /\ \E t \in Callers, device_info \in DeviceInfos :
          /\ jobs[t].at = "idle"
          /\ Enter(t, PresentationURL(device_info))
    /\ UNCHANGED <<infoVars, motionVars, setupVars>>

\* '{} Motion Sensor'.format(name)
MotionSensorName(name) ==
    name \o <<" ", "M", "o", "t", "i", "o", "n", " ", "S", "e", "n", "s", "o", "r">>

\* the KeyError of self._attributes['name'] / ['vprofileurl1'] (lines 134, 138)
HasCameraInfo(dev) ==
    KEY_name \in DOMAIN dev.attributes /\ KEY_vprofileurl1 \in DOMAIN dev.attributes

\* camera_device_info (conf left out); mjpeg_url is self.url + vprofileurl1
camera_device_info(dev) ==
    [platform |-> "nipca", url |-> dev.url, name |-> dev.attributes[KEY_name],
     mjpeg_url |-> <<dev.url, dev.attributes[KEY_vprofileurl1]>>,
     still_image_url |-> _build_url(dev.url, STILL_IMAGE)]

\* motion_device_info (conf left out)
motion_device_info(dev) ==
    [platform |-> "nipca", url |-> dev.url,
     name |-> MotionSensorName(dev.attributes[KEY_name])]

\* a response of pyupnp_async.msearch: whether its get_device() raises, and
\* the presentationURL of the device
DiscoveryResps ==
    {[get_device |-> "UpnpSoapError", url |-> "None"]}
        \cup {[get_device |-> "ok", url |-> u] : u \in Urls}

SetupCatchesOnlySoap(exc) == exc = "UpnpSoapError"

\* the except clauses of lines 70-73
SetupCatches(exc) == exc \in {"UpnpSoapError", "MissingSchema"}

\* lines 62-69 for the device from_url returned, as response i: the two jobs
LoadPlatforms(dev, i) ==
    << [platform |-> "camera", resp |-> i, device |-> dev.id,
        info |-> camera_device_info(dev)],
       [platform |-> "binary_sensor", resp |-> i, device |-> dev.id,
        info |-> motion_device_info(dev)] >>

\* The body of the try of lines 52-69 for the response in hand ended with
\* exc ("none": it completed) having added newJobs: the except clauses of
\* lines 70-73, then the next response, or line 74, or the exception leaves
\* async_setup
Handled(exc, newJobs) ==
    /\ handled' = Append(handled, exc)
    /\ loaded' = loaded \o newJobs
    /\ setupLogged' = IF exc # "none" /\ SetupCatches(exc)
                      THEN Append(setupLogged, setupIdx) ELSE setupLogged
    /\ setupIdx' = setupIdx + 1
    /\ setupState' = IF exc # "none" /\ ~SetupCatches(exc) THEN exc
                     ELSE IF setupIdx = Len(setupResps) THEN "True"
                     ELSE "running"
    /\ UNCHANGED setupResps

\* line 49: msearch returns resps; with no response async_setup returns True
Msearch(resps) ==
    /\ setupState = "not run"
    /\ setupResps' = resps
    /\ setupState' = IF resps = <<>> THEN "True" ELSE "running"
    /\ UNCHANGED <<setupIdx, handled, loaded, setupLogged, jobs, lastCall>>

\* lines 52-61: get_device() of the response in hand raises, or gives the
\* device whose presentationURL goes to from_url in an executor job
GetDevice(resp) ==
    /\ setupState = "running"
    /\ jobs[SetupThread].at = "idle"
    /\ IF resp.get_device # "ok"
       THEN Handled(resp.get_device, <<>>) /\ UNCHANGED jobs
       ELSE /\ jobs' = [jobs EXCEPT ![SetupThread] = Job("queued", resp.url, 0, 0, "none", 0)]
            /\ UNCHANGED setupVars
    /\ UNCHANGED lastCall

\* lines 60-69 once the executor job j has ended: its exception is raised at
\* the await, or the platforms are loaded with the infos of the device it
\* returned (KeyError when the device has no name or no vprofileurl1)
Resumed(j) ==
    /\ setupState = "running"
    /\ j.at = "done"
    /\ jobs' = [jobs EXCEPT ![SetupThread] = NoJob]
    /\ IF j.exc # "none" THEN Handled(j.exc, <<>>)
       ELSE IF ~HasCameraInfo(devices[j.ret]) THEN Handled("KeyError", <<>>)
       ELSE Handled("none", LoadPlatforms(devices[j.ret], setupIdx))
    /\ UNCHANGED lastCall

\* async_setup(hass, config), from one await to the next
async_setup ==
    /\ \/ \E resps \in UNION {[1..n -> DiscoveryResps] : n \in 0..MaxResps} : Msearch(resps)
       \/ /\ setupIdx <= Len(setupResps)
          /\ GetDevice(setupResps[setupIdx])
       \/ Resumed(jobs[SetupThread])
    /\ UNCHANGED <<infoVars, motionVars, hass_data, devices, constructed, storedEver, raced>>

(***************************************************************************)
(* The notify stream: manual_update_sensors, update_motion_sensors and     *)
(* the _notify_listener generator.  update_motion_sensors is a coroutine:  *)
(* it is suspended while the listener awaits websession.get or readline,   *)
(* and other calls of it run meanwhile.                                    *)
(***************************************************************************)

MaxGens == 2
MaxLines == 2
NumListeners == 2

\* the number of line 265
IdleSeconds == 30

\* coordinator.update_interval values of the model, in seconds
UpdateIntervals == {-10, 0, 10, 20}

\* coordinator._listeners: the registered update callbacks, by number
Listeners == [i \in 1..NumListeners |-> i]

\* what the camera writes to the notify stream, as readline() returns it:
\* '\x1cmd1=yes\x0b' / md1=no / mdv1=50 / an empty line / a line without '=' /
\* a line that is not valid UTF-8, each ended by \r\n
NotifyYes == <<"\\x1c", "m", "d", "1", "=", "y", "e", "s", "\\x0b", "\r", "\n">>
NotifyNo == <<"m", "d", "1", "=", "n", "o", "\r", "\n">>
NotifyOther == <<"m", "d", "v", "1", "=", "5", "0", "\r", "\n">>
NotifyBlank == <<"\r", "\n">>
NotifyNoEq == <<"k", "e", "e", "p", " ", "a", "l", "i", "v", "e", "\r", "\n">>
NotifyBad == <<"m", "d", "1", "=", BadByte, "\r", "\n">>
NotifyLines == {NotifyYes, NotifyNo, NotifyOther, NotifyBlank, NotifyNoEq, NotifyBad}

\* lines 149-155
motion_detection_enabled(attrs) ==
    \/ DictGetIs(attrs, KEY_enable, VAL_yes)
    \/ DictGetIs(attrs, KEY_motiondetectionenable, VAL_1)

\* The state a drain works on: self._events, coordinator.data, the callbacks
\* invoked for the line in hand, the record of each line handled so far (the
\* events and coordinator.data after it and the callbacks it invoked, in
\* order), the lines readline() returned, and the exception raised
Drain(events, data, lines) ==
    [events |-> events, data |-> data, invoked |-> <<>>, lines |-> lines,
     read |-> <<>>, exc |-> "none"]

\* the line raw has been handled
Noted(st, raw) ==
    [st EXCEPT !.invoked = <<>>,
               !.read = Append(@, raw),
               !.lines = Append(@, [raw |-> raw, events |-> st.events,
                                    data |-> st.data, invoked |-> st.invoked])]

ManualUpdateNoWrite(st, k, v) ==
    [st EXCEPT !.data = "_events", !.invoked = @ \o Listeners]

\* manual_update_sensors({k: v}), lines 222-229
manual_update_sensors(st, k, v) ==
    [st EXCEPT !.events = DictSet(@, k, v),
               !.data = "_events",
               !.invoked = @ \o Listeners]

IsBinaryAny(v) == TRUE

\* v in ('yes', 'no'), line 280
IsBinary(v) == v \in {VAL_yes, VAL_no}

\* lines 276-283 for the stripped line
HandleLine(st, line) ==
    IF line = <<>> \/ ~HasEq(line) THEN st
    ELSE IF IsBinary(SplitValue(line))
    THEN manual_update_sensors(st, SplitKey(line), SplitValue(line))
    ELSE [st EXCEPT !.events = DictSet(@, SplitKey(line), SplitValue(line))]

\* line.decode().strip() of each line of the model that decodes, evaluated once
StrippedNotify == [raw \in {l \in NotifyLines : Decodable(l)} |-> Strip(raw)]

\* lines 274-283 for the line readline() returned: line 275 raises on a line
\* that is not valid UTF-8
ReadLine(st, raw) ==
    IF ~Decodable(raw)
    THEN [st EXCEPT !.read = Append(@, raw), !.exc = "UnicodeDecodeError"]
    ELSE Noted(HandleLine(st, StrippedNotify[raw]), raw)

\* lines 273-283: readline() and its handling, for the first n lines of buf,
\* or up to the line that raises
RECURSIVE DrainLines(_, _, _)
DrainLines(st, buf, n) ==
    IF n = 0 \/ st.exc # "none" THEN st
    ELSE DrainLines(ReadLine(st, Head(buf)), Tail(buf), n - 1)

\* line 265: 30 / 0 raises ZeroDivisionError
CyclesDefined(interval) == interval # 0

\* cleaned_buffer_count < cycles, with cycles = 30 / interval (lines 265, 267),
\* for an interval that is not 0
IdleLimitInclusive(count, interval) ==
    IF interval > 0 THEN count * interval <= IdleSeconds ELSE count * interval >= IdleSeconds
StillListening(count, interval) ==
    IF interval > 0 THEN count * interval < IdleSeconds ELSE count * interval > IdleSeconds

\* lines 268-271
CountEmpty(count, buf) == IF Len(buf) = 0 THEN count + 1 ELSE 0

\* The exceptions an await of the listener can raise into update_motion_sensors
AwaitErrors == {"TypeError", "TimeoutError", "ClientError", "RuntimeError"}

\* the exceptions update_motion_sensors has an except clause for
HandledErrors == AwaitErrors \cup {"StopAsyncIteration"}

ClearsHandleNotOnStop(exc) == exc \in {"TimeoutError", "ClientError"}

\* the except clauses of lines 240-256 that set self.client = None
ClearsHandle(exc) == exc \in {"TimeoutError", "ClientError", "StopAsyncIteration"}

\* the message each except clause logs; an exception with no except clause
\* leaves update_motion_sensors unlogged
Logged(exc) ==
    IF exc = "TimeoutError" THEN <<"error: Nipca TimeoutError">>
    ELSE IF exc = "ClientError" THEN <<"error: Nipca ClientError">>
    ELSE IF exc = "TypeError" THEN <<"warning: Nipca TypeError">>
    ELSE IF exc = "RuntimeError" THEN <<"warning: Nipca RuntimeError">>
    ELSE IF exc = "StopAsyncIteration" THEN <<"warning: Nipca StopAsyncIteration">>
    ELSE <<>>

\* A _notify_listener() generator: created (not started), running (started by
\* an __anext__ that has not ended: it awaits websession.get or readline),
\* suspended (at the yield) or finished; count is cleaned_buffer_count
Gen(state, count, at) == [state |-> state, count |-> count, at |-> at]
NewGen == Gen("created", 0, "none")
Finished(g) == Gen("finished", g.count, "none")

ShouldCreateWhenEnabled(enabled, handle) == enabled

\* the test of line 232
ShouldCreate(enabled, handle) == enabled /\ handle = 0

\* The record of an update_motion_sensors call: self.client when it started,
\* the listener line 233 created (0: none), the generator and the loop passes
\* of the listener it advanced, self._events and coordinator.data when it
\* started
CallRecord(before, made, g, passes) ==
    [active |-> TRUE, enabled |-> motion_detection_enabled(_attributes),
     clientBefore |-> before, created |-> made, genBefore |-> g,
     emptiesBefore |-> passes, eventsBefore |-> _events,
     dataBefore |-> coordinator_data, lines |-> <<>>]

NoCall ==
    [active |-> FALSE, enabled |-> FALSE, clientBefore |-> 0, created |-> 0,
     genBefore |-> Finished(NewGen), emptiesBefore |-> <<>>,
     eventsBefore |-> EmptyDict, dataBefore |-> "None", lines |-> <<>>]

\* the call rec ends: after is self.client at its end, anext is the number
\* of __anext__() calls it made, ran
\* whether that ran the listener, error the exception __anext__ raised
\* ("none" when the listener yielded), lines the lines it handled, events
\* the mapping it returns (it raises when no except clause names the error)
Ended(rec, after, anext, ran, error, lines, events) ==
    lastMotion' =
        [called |-> TRUE, enabled |-> rec.enabled, clientBefore |-> rec.clientBefore,
         clientAfter |-> after, created |-> rec.created, anext |-> anext, ran |-> ran,
         genBefore |-> rec.genBefore, emptiesBefore |-> rec.emptiesBefore,
         error |-> error, logged |-> Logged(error),
         raised |-> IF error \in HandledErrors \cup {"none"} THEN "none" ELSE error,
         lines |-> lines, eventsBefore |-> rec.eventsBefore,
         dataBefore |-> rec.dataBefore, returned |-> events]

\* lines 240-258 for the handle h whose __anext__ raised error
Raised(rec, h, gens2, ran, error) ==
    /\ gens' = gens2
    /\ client' = IF ClearsHandle(error) THEN 0 ELSE h
    /\ Ended(rec, IF ClearsHandle(error) THEN 0 ELSE h, 1, ran, error, rec.lines, _events)
    /\ UNCHANGED <<_events, coordinator_data, readLog>>

\* The listener h has handled lines up to the drain st, taken from the
\* buffer buf: line 275 raised, or the buffer is empty and the listener
\* yields (line 284), or it awaits the next readline (line 274)
Drained(rec, h, gens2, st, buf) ==
    /\ _events' = st.events
    /\ coordinator_data' = st.data
    /\ readLog' = readLog \o st.read
    /\ buffer' = SubSeq(buf, Len(st.read) + 1, Len(buf))
    /\ IF st.exc # "none"
       THEN /\ gens' = [gens2 EXCEPT ![h] = Finished(@)]
            /\ client' = h
            /\ pending' = NoCall
            /\ Ended(rec, h, 1, TRUE, st.exc, st.lines, st.events)
       ELSE IF Len(st.read) = Len(buf)
       THEN /\ gens' = [gens2 EXCEPT ![h] = Gen("suspended", @.count, "none")]
            /\ client' = h
            /\ pending' = NoCall
            /\ Ended(rec, h, 1, TRUE, "none", st.lines, st.events)
       ELSE /\ gens' = [gens2 EXCEPT ![h] = Gen("running", @.count, "readline")]
            /\ client' = h
            /\ pending' = [rec EXCEPT !.lines = st.lines]
            /\ UNCHANGED lastMotion

\* One pass of the while loop from line 267 for the listener h, whose
\* response buffer is buf: the test of line 267, the count of lines 268-271,
\* and the drain of the first n lines
LoopPass(rec, h, gens2, buf, n) ==
    IF ~StillListening(gens2[h].count, update_interval)
    \* the generator returns
    THEN /\ Raised(rec, h, [gens2 EXCEPT ![h] = Finished(@)], TRUE, "StopAsyncIteration")
         /\ pending' = NoCall
         /\ buffer' = buf
         /\ UNCHANGED empties
    ELSE /\ empties' = Append(empties, Len(buf) = 0)
         /\ Drained(rec, h,
                    [gens2 EXCEPT ![h] = Gen("running", CountEmpty(@.count, buf), "none")],
                    DrainLines(Drain(_events, coordinator_data, rec.lines), buf, n), buf)

\* lines 235-238 for the handle h: await self.client.__anext__()
Anext(rec, h, gens2) ==
    IF gens2[h].state = "running"
    \* anext(): asynchronous generator is already running
    THEN /\ Raised(rec, h, gens2, FALSE, "RuntimeError")
         /\ UNCHANGED <<pending, buffer, empties>>
    ELSE IF gens2[h].state = "finished"
    THEN /\ Raised(rec, h, gens2, FALSE, "StopAsyncIteration")
         /\ UNCHANGED <<pending, buffer, empties>>
    ELSE IF gens2[h].state = "created"
    \* lines 261-262: the listener awaits websession.get
    THEN /\ gens' = [gens2 EXCEPT ![h] = Gen("running", 0, "get")]
         /\ client' = h
         /\ pending' = rec
         /\ empties' = <<>>
         /\ UNCHANGED <<buffer, _events, coordinator_data, readLog, lastMotion>>
    ELSE \E n \in 0..Len(buffer) : LoopPass(rec, h, gens2, buffer, n)

\* update_motion_sensors, the coordinator's update method, up to its return
\* or to the await at which the listener is suspended
update_motion_sensors ==
    /\ UNCHANGED <<infoVars, discVars, update_interval, received>>
    /\ IF ShouldCreate(motion_detection_enabled(_attributes), client)
       THEN /\ Len(gens) < MaxGens
            /\ Anext(CallRecord(client, Len(gens) + 1, NewGen, <<>>),
                     Len(gens) + 1, Append(gens, NewGen))
       ELSE IF client # 0
       THEN Anext(CallRecord(client, 0, gens[client], empties), client, gens)
       ELSE /\ Ended(CallRecord(0, 0, Finished(NewGen), <<>>), 0, 0, FALSE, "none", <<>>,
                  _events)
            /\ UNCHANGED <<gens, client, buffer, _events, coordinator_data, pending,
                           readLog, empties>>

\* The await of the suspended call ends: it raises (fail), or websession.get
\* returns the response, with what the camera sent with it (arrived), or
\* readline returns; the listener runs on to its next await, to the yield or
\* to its end, and with it the call
Resume ==
    /\ pending.active
    /\ UNCHANGED <<infoVars, discVars, update_interval>>
    /\ \E fail \in {"none"} \cup AwaitErrors :
          IF fail # "none"
          THEN /\ Raised(pending, client, [gens EXCEPT ![client] = Finished(@)], TRUE, fail)
               /\ pending' = NoCall
               /\ UNCHANGED <<buffer, empties, received>>
          ELSE IF gens[client].at = "get"
          THEN \E arrived \in {<<>>} \cup {<<l>> : l \in NotifyLines} :
                  /\ received + Len(arrived) <= MaxLines
                  /\ received' = received + Len(arrived)
                  /\ IF ~CyclesDefined(update_interval)
                     THEN /\ gens' = [gens EXCEPT ![client] = Finished(@)]
                          /\ buffer' = arrived
                          /\ pending' = NoCall
                          /\ Ended(pending, client, 1, TRUE, "ZeroDivisionError", <<>>,
                                   _events)
                          /\ UNCHANGED <<client, _events, coordinator_data, readLog, empties>>
                     ELSE \E n \in 0..Len(arrived) :
                             LoopPass(pending, client, gens, arrived, n)
          ELSE /\ UNCHANGED <<received, empties>>
               /\ \E n \in 1..Len(buffer) :
                     Drained(pending, client, gens,
                             DrainLines(Drain(_events, coordinator_data, pending.lines),
                                        buffer, n),
                             buffer)

\* the camera writes a line to the open notify stream
Receive ==
    /\ client # 0
    /\ \/ gens[client].state = "suspended"
       \/ gens[client].state = "running" /\ gens[client].at = "readline"
    /\ received < MaxLines
    /\ \E l \in NotifyLines : buffer' = Append(buffer, l)
    /\ received' = received + 1
    /\ UNCHANGED <<infoVars, discVars, _events, client, gens, coordinator_data,
                   update_interval, pending, empties, readLog, lastMotion>>

(***************************************************************************)
(* Specifications                                                          *)
(***************************************************************************)

NeverCalled ==
    [called |-> FALSE, enabled |-> FALSE, clientBefore |-> 0, clientAfter |-> 0,
     created |-> 0, anext |-> 0, ran |-> FALSE, genBefore |-> Finished(NewGen),
     emptiesBefore |-> <<>>, error |-> "none", logged |-> <<>>, raised |-> "none",
     lines |-> <<>>, eventsBefore |-> EmptyDict, dataBefore |-> "None",
     returned |-> EmptyDict]

\* A device just constructed (lines 103-130), an empty hass.data
Init ==
    /\ _attributes = EmptyDict
    /\ motion_info_url = "None"
    /\ pcs = [t \in Callers |-> Idle]
    /\ started = FALSE
    /\ overlapped = FALSE
    /\ infoCall = "never"
    /\ reqLog = <<>>
    /\ infoRaised = "none"
    /\ infoLogged = <<>>
    /\ prevAttributes = EmptyDict
    /\ prevMotionUrl = "None"
    /\ retAttributes = EmptyDict
    /\ retMotionUrl = "None"
    /\ hass_data = EmptyDict
    /\ constructed = 0
    /\ storedEver = EmptyDict
    /\ devices = EmptyDict
    /\ raced = {}
    /\ jobs = [t \in Threads |-> NoJob]
    /\ lastCall = NoFromUrl
    /\ setupIdx = 1
    /\ setupState = "not run"
    /\ setupResps = <<>>
    /\ handled = <<>>
    /\ loaded = <<>>
    /\ setupLogged = <<>>
    /\ _events = EmptyDict
    /\ client = 0
    /\ gens = <<>>
    /\ buffer = <<>>
    /\ coordinator_data = "None"
    /\ update_interval = 10
    /\ pending = NoCall
    /\ empties = <<>>
    /\ readLog = <<>>
    /\ received = 0
    /\ lastMotion = NeverCalled

NextInfo == update_info

\* the attribute polling of one device by the callers of update_info
SpecInfo == Init /\ [][NextInfo]_vars

NextDiscovery == async_setup \/ from_url \/ from_device_info

\* discovery and the device registry in hass.data
SpecDiscovery == Init /\ [][NextDiscovery]_vars

\* A device as from_url stored it (update_info has run against a camera with
\* motion detection on, or with no motion endpoint), its coordinator set up
InitMotion ==
    /\ \E net \in {NetGood, NetNoMotion} :
          /\ _attributes = UpdateInfo(EmptyDict, "None", GoodUrl, net).attributes
          /\ motion_info_url = UpdateInfo(EmptyDict, "None", GoodUrl, net).motion_info_url
          /\ reqLog = UpdateInfo(EmptyDict, "None", GoodUrl, net).log
          /\ retAttributes = UpdateInfo(EmptyDict, "None", GoodUrl, net).attributes
          /\ retMotionUrl = UpdateInfo(EmptyDict, "None", GoodUrl, net).motion_info_url
    /\ pcs = [t \in Callers |-> Idle]
    /\ started = TRUE
    /\ overlapped = FALSE
    /\ infoCall = "first"
    /\ infoRaised = "none"
    /\ infoLogged = <<>>
    /\ prevAttributes = EmptyDict
    /\ prevMotionUrl = "None"
    /\ hass_data = EmptyDict
    /\ constructed = 0
    /\ storedEver = EmptyDict
    /\ devices = EmptyDict
    /\ raced = {}
    /\ jobs = [t \in Threads |-> NoJob]
    /\ lastCall = NoFromUrl
    /\ setupIdx = 1
    /\ setupState = "not run"
    /\ setupResps = <<>>
    /\ handled = <<>>
    /\ loaded = <<>>
    /\ setupLogged = <<>>
    /\ _events = EmptyDict
    /\ client = 0
    /\ gens = <<>>
    /\ buffer = <<>>
    /\ coordinator_data = "None"
    /\ update_interval \in UpdateIntervals
    /\ pending = NoCall
    /\ empties = <<>>
    /\ readLog = <<>>
    /\ received = 0
    /\ lastMotion = NeverCalled

NextMotion == update_motion_sensors \/ Resume \/ Receive

\* the notify stream of one device and the calls of update_motion_sensors
SpecMotion == InitMotion /\ [][NextMotion]_vars

NextPolled == update_motion_sensors \/ Resume \/ Receive \/ update_info_in_executor

\* the same while update_info polls the device from an executor thread, so
\* that motion_detection_enabled changes between and during the calls
SpecPolled == InitMotion /\ [][NextPolled]_vars

(***************************************************************************)
(* Claims about from_url and async_setup (SpecDiscovery)                   *)
(***************************************************************************)

StoredIds == {hass_data[k] : k \in DOMAIN hass_data}

\* what C9 says of the from_url call that ended last and of the devices
\* hass.data holds: a call that found a device returns it, constructs none
\* and calls no update_info; a call that found none constructs one and calls
\* its update_info; a device whose update_info raised is not stored
CallsAsClaimed ==
    /\ \A k \in DOMAIN hass_data :
          /\ hass_data[k] \in DOMAIN devices
          /\ k = DATA_NIPCA(devices[hass_data[k]].url)
    /\ lastCall.existed # 0 =>
          /\ lastCall.ret = lastCall.existed
          /\ lastCall.made = 0
          /\ ~lastCall.updated
          /\ lastCall.exc = "none"
    /\ (lastCall.thread # "none" /\ lastCall.existed = 0) =>
          lastCall.made # 0 /\ lastCall.updated
    /\ (lastCall.made # 0 /\ lastCall.exc # "none") =>
          lastCall.ret = 0 /\ lastCall.made \notin StoredIds
    /\ \A t \in Threads : jobs[t].at = "99" => jobs[t].made \notin DOMAIN devices

\* C9 (as claimed): at most one device is ever stored under a key
\* 'nipca.<url>', whatever from_url calls are made; a from_url call for a URL
\* that has a stored device returns that device, constructs none and calls no
\* update_info; and a device is stored only after its update_info returned
\* without raising.
C9_FromUrlIdempotentAnyCalls ==
    /\ \A k \in DOMAIN storedEver : Cardinality(storedEver[k]) <= 1
    /\ CallsAsClaimed

\* C9 (amended): the same, the bound of one device per key being for the
\* URLs of which no from_url call began while another call for the same URL
\* was inside update_info.
C9_FromUrlIdempotent ==
    /\ \A url \in Urls \ raced :
          DATA_NIPCA(url) \in DOMAIN storedEver =>
              Cardinality(storedEver[DATA_NIPCA(url)]) <= 1
    /\ CallsAsClaimed

\* a platform thread asked for the URL of the device async_setup stored, with
\* no call overlapping another: it got that device
C9_Witness ==
    /\ lastCall.thread \in Callers
    /\ lastCall.url \notin raced
    /\ lastCall.existed = 1
    /\ lastCall.ret = 1
    /\ lastCall.made = 0
    /\ storedEver[DATA_NIPCA(lastCall.url)] = {1}
    /\ constructed = 1

JobsOf(i) == SelectSeq(loaded, LAMBDA j : j.resp = i)

\* C10: a response whose handling raises UpnpSoapError or MissingSchema is
\* logged, loads no platform, and the next response is still processed; a
\* response handled without error has the camera platform and then the
\* binary_sensor platform scheduled with the info of the device from_url
\* returned for it; and async_setup returns True when every response ended
\* in one of these ways.
C10_DiscoveryIsolatesFailures ==
    /\ Len(handled) <= Len(setupResps)
    /\ \A i \in 1..Len(handled) :
          /\ handled[i] \in {"UpnpSoapError", "MissingSchema"} =>
                /\ \E j \in 1..Len(setupLogged) : setupLogged[j] = i
                /\ JobsOf(i) = <<>>
                /\ i < Len(setupResps) =>
                      \/ Len(handled) > i
                      \/ setupState = "running" /\ setupIdx = i + 1
          /\ handled[i] = "none" =>
                /\ Len(JobsOf(i)) = 2
                /\ JobsOf(i)[1].platform = "camera"
                /\ JobsOf(i)[2].platform = "binary_sensor"
                /\ JobsOf(i)[1].device = JobsOf(i)[2].device
                /\ JobsOf(i)[1].device \in DOMAIN devices
                /\ devices[JobsOf(i)[1].device].url = setupResps[i].url
                /\ JobsOf(i)[1].info = camera_device_info(devices[JobsOf(i)[1].device])
                /\ JobsOf(i)[2].info = motion_device_info(devices[JobsOf(i)[1].device])
          /\ handled[i] \notin {"none", "UpnpSoapError", "MissingSchema"} =>
                setupState = handled[i] /\ Len(handled) = i
    /\ \A a, b \in 1..Len(loaded) : a < b => loaded[a].resp <= loaded[b].resp
    /\ (/\ Len(handled) = Len(setupResps)
        /\ setupState # "not run"
        /\ \A i \in 1..Len(handled) :
              handled[i] \in {"none", "UpnpSoapError", "MissingSchema"})
          => setupState = "True"
    /\ setupState = "True" =>
          /\ Len(handled) = Len(setupResps)
          /\ \A i \in 1..Len(handled) :
                handled[i] \in {"none", "UpnpSoapError", "MissingSchema"}

\* a URL without a scheme, then a camera that answers: the first is logged,
\* the second is loaded
C10_Witness ==
    /\ setupState = "True"
    /\ handled = <<"MissingSchema", "none">>
    /\ setupLogged = <<1>>
    /\ Len(loaded) = 2
    /\ loaded[1].resp = 2

(***************************************************************************)
(* Claims about the notify stream (SpecMotion)                             *)
(***************************************************************************)

\* C1 (as claimed): whichever handled error the advance of the listener
\* raises, it is logged and self.client is None when update_motion_sensors
\* returns.
C1_EveryErrorClearsHandle ==
    lastMotion.error \in HandledErrors =>
        lastMotion.logged # <<>> /\ lastMotion.clientAfter = 0

\* C1 (amended): each of the five handled errors is logged and the call
\* returns; TimeoutError, ClientError and StopAsyncIteration clear
\* self.client; TypeError and RuntimeError leave self.client the listener
\* whose __anext__ raised.
C1_ErrorsLoggedHandleCleared ==
    /\ lastMotion.error \in HandledErrors =>
          lastMotion.logged # <<>> /\ lastMotion.raised = "none"
    /\ lastMotion.error \in {"TimeoutError", "ClientError", "StopAsyncIteration"} =>
          lastMotion.clientAfter = 0
    /\ lastMotion.error \in {"TypeError", "RuntimeError"} =>
          /\ lastMotion.clientAfter # 0
          /\ lastMotion.clientAfter =
                IF lastMotion.created # 0 THEN lastMotion.created
                ELSE lastMotion.clientBefore

\* a listener that was idle too long ended with StopAsyncIteration
C1_Witness ==
    /\ lastMotion.error = "StopAsyncIteration"
    /\ lastMotion.clientBefore # 0
    /\ lastMotion.genBefore.state = "suspended"
    /\ lastMotion.clientAfter = 0
    /\ client = 0

\* what a line read from the stream is, read off the line itself
NotifyIsPair(raw) == Decodable(raw) /\ Strip(raw) # <<>> /\ HasEq(Strip(raw))
NotifyKey(raw) == SplitKey(Strip(raw))
NotifyValue(raw) == SplitValue(Strip(raw))
ReadWith(k) == {i \in 1..Len(readLog) : NotifyIsPair(readLog[i]) /\ NotifyKey(readLog[i]) = k}
ReadKeys == {NotifyKey(readLog[i]) : i \in {j \in 1..Len(readLog) : NotifyIsPair(readLog[j])}}

\* C2: _events holds, for every key read from the notify stream so far, the
\* value of the last key=value line read with that key, whether it went
\* through manual_update_sensors or not, and holds no other key.
C2_EventsLastWriteWins ==
    /\ DOMAIN _events = ReadKeys
    /\ \A k \in DOMAIN _events : _events[k] = NotifyValue(readLog[Max(ReadWith(k))])

\* '\x1cmd1=yes\x0b' then 'md1=no' were read: md1 is 'no'
C2_Witness ==
    /\ readLog = <<NotifyYes, NotifyNo>>
    /\ DictGetIs(_events, <<"m", "d", "1">>, VAL_no)

LiveGens == {i \in 1..Len(gens) : gens[i].state # "finished"}

\* C5: a listener is created exactly when motion detection is enabled and
\* self.client is None, so no device has two live listeners and the live one
\* is self.client; a call that meets a live listener which no other call is
\* advancing makes one __anext__() that runs it; a call made with no handle
\* and motion detection enabled creates a fresh listener; a call with no
\* handle and motion detection disabled does no I/O and returns the events
\* mapping unchanged.
C5_HandleLifecycle ==
    /\ Cardinality(LiveGens) <= 1
    /\ \A i \in LiveGens : client = i
    /\ lastMotion.called =>
          /\ lastMotion.created # 0 <=> (lastMotion.enabled /\ lastMotion.clientBefore = 0)
          /\ lastMotion.created # 0 => lastMotion.genBefore.state = "created"
          /\ lastMotion.anext =
                IF lastMotion.clientBefore # 0 \/ lastMotion.created # 0 THEN 1 ELSE 0
          /\ (lastMotion.anext = 1 /\ lastMotion.genBefore.state \in {"created", "suspended"})
                => lastMotion.ran
          /\ (~lastMotion.enabled /\ lastMotion.clientBefore = 0) =>
                /\ lastMotion.anext = 0
                /\ lastMotion.lines = <<>>
                /\ lastMotion.raised = "none"
                /\ lastMotion.returned = lastMotion.eventsBefore

\* a reconnect: the first listener has ended, the call created the second
C5_Witness ==
    /\ lastMotion.created = 2
    /\ lastMotion.clientBefore = 0
    /\ lastMotion.ran
    /\ gens[1].state = "finished"
    /\ gens[2].state = "suspended"
    /\ client = 2

RECURSIVE TrailingEmpties(_)
TrailingEmpties(seq) ==
    IF seq = <<>> \/ ~seq[Len(seq)] THEN 0
    ELSE 1 + TrailingEmpties(SubSeq(seq, 1, Len(seq) - 1))

\* t >= 30 / interval, for an interval that is not 0
ReachedCycles(t, interval) ==
    IF interval > 0 THEN t * interval >= IdleSeconds ELSE t * interval <= IdleSeconds

\* C6: with cycles = 30 / update interval, a listener at its yield ends with
\* StopAsyncIteration (and the handle is cleared) exactly on the first advance
\* made after its consecutive loop passes that met an empty buffer numbered
\* cycles or more; a pass that meets data starts the count again, so the
\* count the listener keeps is the number of its latest consecutive empty
\* passes.  A listener that starts ends so only when cycles is below 0.
C6_IdleTimeout ==
    /\ (client # 0 /\ gens[client].state = "suspended") =>
          gens[client].count = TrailingEmpties(empties)
    /\ (lastMotion.anext = 1 /\ lastMotion.genBefore.state = "suspended") =>
          IF ReachedCycles(TrailingEmpties(lastMotion.emptiesBefore), update_interval)
          THEN /\ lastMotion.error = "StopAsyncIteration"
               /\ lastMotion.clientAfter = 0
               /\ ~ReachedCycles(TrailingEmpties(lastMotion.emptiesBefore) - 1,
                                 update_interval)
          ELSE lastMotion.error # "StopAsyncIteration"
    /\ (lastMotion.anext = 1 /\ lastMotion.genBefore.state = "created"
          /\ update_interval # 0) =>
          IF ReachedCycles(0, update_interval)
          THEN lastMotion.error \in HandledErrors
          ELSE lastMotion.error # "StopAsyncIteration"

\* interval 20 s (cycles 1.5): data on connect, then two empty passes, then
\* the advance that ends the listener
C6_Witness ==
    /\ update_interval = 20
    /\ lastMotion.error = "StopAsyncIteration"
    /\ lastMotion.genBefore.state = "suspended"
    /\ lastMotion.emptiesBefore = <<FALSE, TRUE, TRUE>>
    /\ lastMotion.clientAfter = 0

\* the state before line i of the last call was handled
BeforeLine(i) ==
    IF i = 1 THEN [events |-> lastMotion.eventsBefore, data |-> lastMotion.dataBefore]
    ELSE [events |-> lastMotion.lines[i - 1].events, data |-> lastMotion.lines[i - 1].data]

EachListenerOnce(invoked) ==
    /\ Len(invoked) = NumListeners
    /\ \A c \in 1..NumListeners : Cardinality({j \in 1..Len(invoked) : invoked[j] = c}) = 1

BinaryLineOK(i) ==
    LET e == lastMotion.lines[i]
    IN  /\ e.events = DictSet(BeforeLine(i).events, NotifyKey(e.raw), NotifyValue(e.raw))
        /\ e.data = "_events"
        /\ EachListenerOnce(e.invoked)

SilentLineOK(i) ==
    LET e == lastMotion.lines[i]
    IN  /\ e.events = BeforeLine(i).events
        /\ e.data = BeforeLine(i).data
        /\ e.invoked = <<>>

\* C8: a yes/no line writes _events[k], sets coordinator.data to the events
\* mapping and invokes every registered callback exactly once; a line with
\* another value writes _events[k] only: coordinator.data is not assigned and
\* no callback runs; an empty line or a line without '=' leaves _events and
\* coordinator.data as they were and invokes no callback.
C8_OnlyBinaryNotifies ==
    \A i \in 1..Len(lastMotion.lines) :
        LET e == lastMotion.lines[i]
        IN  IF ~NotifyIsPair(e.raw) THEN SilentLineOK(i)
            ELSE IF NotifyValue(e.raw) \in {VAL_yes, VAL_no} THEN BinaryLineOK(i)
            ELSE /\ e.events = DictSet(BeforeLine(i).events, NotifyKey(e.raw), NotifyValue(e.raw))
                 /\ e.invoked = <<>>
                 /\ e.data = BeforeLine(i).data

\* one call read '\x1cmd1=yes\x0b' and then mdv1=50
C8_Witness ==
    /\ Len(lastMotion.lines) = 2
    /\ lastMotion.lines[1].raw = NotifyYes
    /\ lastMotion.lines[1].invoked = Listeners
    /\ lastMotion.lines[1].events = (<<"m", "d", "1">> :> VAL_yes)
    /\ lastMotion.lines[2].raw = NotifyOther
    /\ lastMotion.lines[2].invoked = <<>>
    /\ coordinator_data = "_events"

====
